---- MODULE Spec2Model ----
(***************************************************************************)
(* Model of labmateai/collaborative_recommender.py: the class              *)
(* CollaborativeRecommender (user-based collaborative filtering over a     *)
(* user-item rating matrix with a brute-force cosine nearest-neighbour     *)
(* index).                                                                 *)
(*                                                                         *)
(* A mean of c rows is kept as the exact pair (column sums, c): two means  *)
(* over the same c compare as their sums do.  Cosine distances are         *)
(* compared exactly by cross-multiplying squared dot products; rows at     *)
(* equal distance, and equal scores in a sort, may come out in any order   *)
(* (neither NearestNeighbors.kneighbors nor the default quicksort of       *)
(* sort_values promises one), so each is a nondeterministic choice.        *)
(***************************************************************************)
EXTENDS Integers, Sequences, FiniteSets

\* ---------------------------------------------------------------- bounds
\* n_neighbors is drawn from 0..MaxK, n_recommendations from 0..MaxN
MaxK == 3
MaxN == 2
\* the top of the rating scale of the matrices of single-rating rows
MaxRating == 2

\* The users (rows) and the tools (columns) of the matrices checked.
Users == 1..3
Items == 1..3

\* len(self.user_item_matrix)
NumUsers == Cardinality(Users)
NumItems == Cardinality(Items)
\* user identifier that is in no matrix
AbsentUser == NumUsers + 1
\* tool identifier that is no column of the matrix
ExtraTool == NumItems + 1

VARIABLES user_item_matrix, tools_df, n_neighbors, state, model_fitted,
          tool_id_to_details, init_exc, last

vars == <<user_item_matrix, tools_df, n_neighbors, state, model_fitted,
          tool_id_to_details, init_exc, last>>

\* ------------------------------------------------------------- helpers
Min(a, b) == IF a < b THEN a ELSE b

SeqRange(s) == {s[i] : i \in 1..Len(s)}

RECURSIVE SumSeq(_, _)
\* sum over the positions of seq of fn[seq[i]]
SumSeq(fn, seq) ==
  IF seq = <<>> THEN 0 ELSE fn[Head(seq)] + SumSeq(fn, Tail(seq))

RECURSIVE DotFrom(_, _, _)
DotFrom(u, v, i) ==
  IF i > Len(u) THEN 0 ELSE u[i] * v[i] + DotFrom(u, v, i + 1)

\* the dot product of two rows
Dot(u, v) == DotFrom(u, v, 1)

\* ------------------------------------------------------------ exceptions
NoExc == [class |-> "none", msg |-> "none"]
ValueError(m) == [class |-> "ValueError", msg |-> m]

\* ------------------------------------------------------------ the inputs
\* The catalogs checked, as the tool_id column of tools_df.
\* every column, in reverse order, behind one tool that is no column
ValidCatalog ==
  [i \in 1..(NumItems + 1) |-> IF i = 1 THEN ExtraTool ELSE NumItems + 2 - i]
\* every column, the first catalog row repeated at the end
DuplicateCatalog == Append(ValidCatalog, ValidCatalog[1])
\* the first column is not in the catalog
MissingCatalog == SubSeq(ValidCatalog, 1, NumItems)
\* the first column is not in the catalog and a tool_id is there twice
MissingDuplicateCatalog == Append(MissingCatalog, MissingCatalog[1])

Catalogs == {ValidCatalog, DuplicateCatalog, MissingCatalog,
             MissingDuplicateCatalog}

\* A rating of 0 stands for "not rated".  The matrices checked: every matrix
\* of ratings 0 and 1, and every matrix whose rows hold at most one rating, on
\* the scale 1..MaxRating (rows that are multiples of one another).
BinaryRows == [Items -> 0..1]
SingleRatingRows ==
  {[i \in Items |-> IF i = j THEN r ELSE 0] : j \in Items, r \in 0..MaxRating}
Matrices == [Users -> BinaryRows] \cup [Users -> SingleRatingRows]

NoVector == [sums |-> [i \in Items |-> 0], cnt |-> 0]

NoCall == [op |-> "none", user_id |-> AbsentUser, n |-> 0, exc |-> NoExc,
           scores |-> NoVector, recs |-> <<>>, neighbors |-> <<>>,
           order |-> <<>>, asked |-> 0, skipped |-> 0]

Init ==
  /\ user_item_matrix \in Matrices
  /\ tools_df \in Catalogs
  /\ n_neighbors \in 0..MaxK
  /\ state = "constructing"
  /\ model_fitted = FALSE
  /\ tool_id_to_details = {}
  /\ init_exc = NoExc
  /\ last = NoCall

\* ---------------------------------------------------------- construction
\* tool_ids_in_matrix - tool_ids_in_tools_df
MissingToolIds(columns, tools) == columns \ SeqRange(tools)

\* tools_df['tool_id'].duplicated().any()
HasDuplicates(tools) ==
  \E i, j \in 1..Len(tools) : i < j /\ tools[i] = tools[j]

\* the check off by one: k = 0 passes
BadNeighborCountOffByOne(k) == k < 0

\* n_neighbors < 1
BadNeighborCount(k) == k < 1

\* The checks of __init__ in the order the code makes them; NoExc when all
\* pass.  (The second subset check of the code repeats the first.)
InitChecks(columns, tools, k) ==
  IF MissingToolIds(columns, tools) # {} THEN ValueError("missing_tool_ids")
  ELSE IF HasDuplicates(tools) THEN ValueError("duplicate_tool_ids")
  ELSE IF BadNeighborCount(k) THEN ValueError("n_neighbors_lt_1")
  ELSE IF ~(columns \subseteq SeqRange(tools)) THEN ValueError("missing_tool_ids")
  ELSE NoExc

\* the table built without the last row of the catalog
ToolIdToDetailsSkipLast(tools) == SeqRange(SubSeq(tools, 1, Len(tools) - 1))

\* tools_df.set_index('tool_id').to_dict('index'): the keys of the table
ToolIdToDetails(tools) == SeqRange(tools)

\* CollaborativeRecommender.__init__
Construct ==
  /\ state = "constructing"
  /\ LET e == InitChecks(Items, tools_df, n_neighbors) IN
       IF e # NoExc
       THEN /\ state' = "failed"
            /\ init_exc' = e
            /\ UNCHANGED <<model_fitted, tool_id_to_details>>
       ELSE /\ model_fitted' = TRUE
            /\ tool_id_to_details' = ToolIdToDetails(tools_df)
            /\ state' = "ready"
            /\ UNCHANGED init_exc
  /\ UNCHANGED <<user_item_matrix, tools_df, n_neighbors, last>>

\* --------------------------------------------------- the similarity index
\* user_item_matrix.loc[user_id]
UserVector(user_id) == user_item_matrix[user_id]

\* np.all(user_vector == 0.0)
AllZero(v) == \A i \in Items : v[i] = 0

\* the fully-rated test with the comparison the wrong way round
AllNonZeroInverted(v) == \A i \in Items : v[i] = 0

\* np.all(user_vector != 0.0)
AllNonZero(v) == \A i \in Items : v[i] # 0

\* Cosine similarity of row v to the query q, up to the factor 1/|q| that all
\* rows share, as the exact fraction sqrt(num/den); a zero row has
\* similarity 0 (its normalised form is the zero vector).  Ratings are
\* non-negative, so the dot product is.
CosineKey(q, v) ==
  LET vv == Dot(v, v)
      qv == Dot(q, v)
  IN IF vv = 0 THEN [num |-> 0, den |-> 1] ELSE [num |-> qv * qv, den |-> vv]

\* the row of key ka is at a strictly smaller cosine distance from the query
\* than the row of key kb
CosineCloser(ka, kb) == ka.num * kb.den > kb.num * ka.den

UserOrders == {o \in [1..NumUsers -> Users] : \A i, j \in 1..NumUsers : o[i] = o[j] => i = j}

\* The orders in which the fitted index can rank its rows for the query q:
\* by non-decreasing cosine distance, rows at equal distance in any order.
DistanceOrders(q) ==
  LET key == [a \in Users |-> CosineKey(q, user_item_matrix[a])]
  IN {o \in UserOrders :
        \A i \in 1..(NumUsers - 1) : ~CosineCloser(key[o[i + 1]], key[o[i]])}

\* NearestNeighbors.kneighbors(q, n_neighbors=cnt) on an index whose rows rank
\* as order: a ValueError when cnt exceeds the rows fitted, else the cnt
\* nearest row positions, nearest first.
KNeighbors(order, cnt) ==
  IF cnt > NumUsers
  THEN [exc |-> ValueError("n_neighbors_gt_n_samples"), indices |-> <<>>]
  ELSE [exc |-> NoExc, indices |-> SubSeq(order, 1, cnt)]

\* indices.flatten()[1:]
ExcludeFirst(indices) == Tail(indices)

\* user_item_matrix.iloc[rows].mean(axis=0), as (column sums, row count)
MeanRatings(rows) ==
  [sums |-> [i \in Items |-> SumSeq([u \in Users |-> user_item_matrix[u][i]], rows)],
   cnt |-> Len(rows)]

\* user_item_matrix.mean()
MatrixMean == MeanRatings([u \in 1..NumUsers |-> u])

\* ------------------------------------------------ get_recommendation_scores
\* the clamp that leaves room for the user's own row
ScoresNeighborCountLessSelf == Min(n_neighbors, NumUsers - 1)

\* n_neighbors = min(self.n_neighbors, len(self.user_item_matrix))
ScoresNeighborCount == Min(n_neighbors, NumUsers)

\* the count get_recommendation_scores asks of kneighbors
ScoresRequest == ScoresNeighborCount + 1

\* the argument check of get_recommendation_scores
ScoresArgumentError(user_id) ==
  IF user_id \notin Users THEN ValueError("user_not_found") ELSE NoExc

\* get_recommendation_scores(user_id) on an index that ranks its rows as order
GetRecommendationScoresCall(user_id, order) ==
  LET c == [NoCall EXCEPT !.op = "scores", !.user_id = user_id] IN
  IF ScoresArgumentError(user_id) # NoExc
  THEN [c EXCEPT !.exc = ScoresArgumentError(user_id)]
  ELSE IF AllZero(UserVector(user_id))
  THEN [c EXCEPT !.scores = MatrixMean]
  ELSE LET r == KNeighbors(order, ScoresRequest) IN
       IF r.exc # NoExc
       THEN [c EXCEPT !.exc = r.exc, !.asked = ScoresRequest]
       ELSE LET similar == ExcludeFirst(r.indices) IN
            [c EXCEPT !.asked = ScoresRequest, !.order = order,
                      !.neighbors = similar, !.scores = MeanRatings(similar)]

\* the rankings the index can give the call: one, unused, when the call does
\* not reach kneighbors
OrdersFor(user_id) ==
  IF user_id \in Users /\ ~AllZero(UserVector(user_id))
  THEN DistanceOrders(UserVector(user_id))
  ELSE {<<>>}

GetRecommendationScores(user_id) ==
  /\ state = "ready"
  /\ last = NoCall
  /\ \E order \in OrdersFor(user_id) :
       last' = GetRecommendationScoresCall(user_id, order)
  /\ UNCHANGED <<user_item_matrix, tools_df, n_neighbors, state, model_fitted,
                 tool_id_to_details, init_exc>>

\* ------------------------------------------------------ get_recommendations
ItemTies == {t \in [Items -> 1..NumItems] : \A i, j \in Items : t[i] = t[j] => i = j}

\* the sort ascending
SortValuesAscending(S, sums, tie) ==
  LET Before(x, y) == sums[x] < sums[y] \/ (sums[x] = sums[y] /\ tie[x] < tie[y])
      Pos(x) == Cardinality({y \in S : Before(y, x)}) + 1
  IN [p \in 1..Cardinality(S) |-> CHOOSE x \in S : Pos(x) = p]

\* Series.sort_values(ascending=False) of the entries S of sums: descending
\* by value, entries of equal value in the order tie gives them.
SortValues(S, sums, tie) ==
  LET Before(x, y) == sums[x] > sums[y] \/ (sums[x] = sums[y] /\ tie[x] < tie[y])
      Pos(x) == Cardinality({y \in S : Before(y, x)}) + 1
  IN [p \in 1..Cardinality(S) |-> CHOOSE x \in S : Pos(x) = p]

\* Series.head(n)
HeadN(seq, n) == SubSeq(seq, 1, Min(n, Len(seq)))

\* no rated tool is excluded
UserRatedToolsNone(user_id) == {}

\* the labels of user_item_matrix.loc[user_id] > 0
UserRatedTools(user_id) == {i \in Items : user_item_matrix[user_id][i] > 0}

\* mean_ratings.drop(labels=user_rated_tools, errors='ignore'): what is left
PotentialRecommendations(user_id) == Items \ UserRatedTools(user_id)

\* the count get_recommendations asks of kneighbors
RecsRequest == n_neighbors + 1

\* tools_df[tools_df['tool_id'].isin(top)].to_dict('records'): the rows of
\* the catalog whose tool_id is in top, in catalog order
CatalogRowsIn(top) == SelectSeq(tools_df, LAMBDA t : t \in SeqRange(top))

\* the loop over top_tool_ids: the ids the lookup table resolves, in order
ResolveTools(top) == SelectSeq(top, LAMBDA t : t \in tool_id_to_details)

\* the argument checks in the other order
RecsArgumentErrorUserFirst(user_id, n) ==
  IF user_id \notin Users THEN ValueError("user_not_found")
  ELSE IF n < 1 THEN ValueError("n_recommendations_lt_1")
  ELSE NoExc

\* the argument checks of get_recommendations, in the order the code makes them
RecsArgumentError(user_id, n) ==
  IF n < 1 THEN ValueError("n_recommendations_lt_1")
  ELSE IF user_id \notin Users THEN ValueError("user_not_found")
  ELSE NoExc

\* get_recommendations(user_id, n) on an index that ranks its rows as order
\* and a sort that orders equal scores by tie
GetRecommendationsCall(user_id, n, order, tie) ==
  LET c == [NoCall EXCEPT !.op = "recs", !.user_id = user_id, !.n = n] IN
  IF RecsArgumentError(user_id, n) # NoExc
  THEN [c EXCEPT !.exc = RecsArgumentError(user_id, n)]
  ELSE IF AllZero(UserVector(user_id))
  THEN LET top == HeadN(SortValues(Items, MatrixMean.sums, tie), n) IN
       [c EXCEPT !.recs = CatalogRowsIn(top)]
  ELSE IF AllNonZero(UserVector(user_id))
  THEN c
  ELSE LET r == KNeighbors(order, RecsRequest) IN
       IF r.exc # NoExc
       THEN [c EXCEPT !.exc = r.exc, !.asked = RecsRequest]
       ELSE LET similar == ExcludeFirst(r.indices)
                mean_ratings == MeanRatings(similar)
                top == HeadN(SortValues(PotentialRecommendations(user_id),
                                        mean_ratings.sums, tie), n)
            IN [c EXCEPT !.asked = RecsRequest, !.order = order,
                         !.neighbors = similar, !.scores = mean_ratings,
                         !.recs = ResolveTools(top),
                         !.skipped = Len(top) - Len(ResolveTools(top))]

\* the orders the sort of the call can give equal scores: one, unused, when
\* the call sorts nothing
TiesFor(user_id, n) ==
  IF /\ RecsArgumentError(user_id, n) = NoExc
     /\ \/ AllZero(UserVector(user_id))
        \/ ~AllNonZero(UserVector(user_id)) /\ RecsRequest <= NumUsers
  THEN ItemTies
  ELSE {[i \in Items |-> i]}

GetRecommendations(user_id, n) ==
  /\ state = "ready"
  /\ last = NoCall
  /\ \E order \in OrdersFor(user_id) : \E tie \in TiesFor(user_id, n) :
       last' = GetRecommendationsCall(user_id, n, order, tie)
  /\ UNCHANGED <<user_item_matrix, tools_df, n_neighbors, state, model_fitted,
                 tool_id_to_details, init_exc>>

\* the call returns (or raises) to its caller; the recommender serves the next
ReturnToCaller ==
  /\ state = "ready"
  /\ last # NoCall
  /\ last' = NoCall
  /\ UNCHANGED <<user_item_matrix, tools_df, n_neighbors, state, model_fitted,
                 tool_id_to_details, init_exc>>

Next ==
  \/ Construct
  \/ \E u \in Users \cup {AbsentUser} : GetRecommendationScores(u)
  \/ \E u \in Users \cup {AbsentUser} : \E n \in 0..MaxN : GetRecommendations(u, n)
  \/ ReturnToCaller

Spec == Init /\ [][Next]_vars

\* ------------------------------------------------ vocabulary of the claims
TheUser == last.user_id

\* the tools the user rated above 0 in the matrix, and those rated 0
RatedAboveZero(u) == {i \in Items : user_item_matrix[u][i] > 0}
RatedZero(u) == {i \in Items : user_item_matrix[u][i] = 0}

HasRatings(u) == u \in Users /\ \E i \in Items : user_item_matrix[u][i] # 0
ColdStart(u) == u \in Users /\ \A i \in Items : user_item_matrix[u][i] = 0
FullyRated(u) == u \in Users /\ \A i \in Items : user_item_matrix[u][i] # 0
PartlyRated(u) == HasRatings(u) /\ ~FullyRated(u)

RECURSIVE SumSet(_, _)
SumSet(f, S) ==
  IF S = {} THEN 0
  ELSE LET x == CHOOSE y \in S : TRUE IN f[x] + SumSet(f, S \ {x})

\* column sums of the rows R (a set of users) and of all rows
SumOfRows(R) == [i \in Items |-> SumSet([u \in Users |-> user_item_matrix[u][i]], R)]
ColumnTotals == SumOfRows(Users)

Distinct(seq) == \A i, j \in 1..Len(seq) : seq[i] = seq[j] => i = j

NonIncreasing(seq, score) ==
  \A i, j \in 1..Len(seq) : i < j => score[seq[i]] >= score[seq[j]]

\* seq is a top-n selection of the candidates by score, best first
IsTopN(seq, score, candidates, n) ==
  /\ Len(seq) = Min(n, Cardinality(candidates))
  /\ Distinct(seq)
  /\ SeqRange(seq) \subseteq candidates
  /\ NonIncreasing(seq, score)
  /\ \A out \in candidates \ SeqRange(seq) : \A in \in SeqRange(seq) :
        score[out] <= score[in]

Returned(op) == state = "ready" /\ last.op = op /\ last.exc = NoExc
Raised(op) == state = "ready" /\ last.op = op /\ last.exc # NoExc
NoResult == last.scores = NoVector /\ last.recs = <<>>

\* ------------------------------------------------------------------ claims

\* C1: for a user with a non-zero row and n >= 1, the list get_recommendations
\* returns has at most n entries and none is a tool the user rated above 0.
C1_AtMostNAndUnrated ==
  (Returned("recs") /\ HasRatings(TheUser) /\ last.n >= 1) =>
     /\ Len(last.recs) <= last.n
     /\ \A i \in 1..Len(last.recs) : last.recs[i] \notin RatedAboveZero(TheUser)

C1_Witness ==
  /\ Returned("recs") /\ PartlyRated(TheUser)
  /\ Len(last.recs) = last.n /\ last.n < Cardinality(RatedZero(TheUser))
  /\ \E i \in RatedAboveZero(TheUser) : \E u \in SeqRange(last.neighbors) :
        user_item_matrix[u][i] > 0

\* C2: for a user with a non-zero row, the vector get_recommendation_scores
\* returns is the column-wise mean of exactly k rows of the matrix, none of
\* them the user's own row.
C2_MeanOfKOtherRows ==
  (Returned("scores") /\ HasRatings(TheUser)) =>
     \E R \in SUBSET (Users \ {TheUser}) :
        /\ Cardinality(R) = n_neighbors
        /\ last.scores = [sums |-> SumOfRows(R), cnt |-> n_neighbors]

\* C3: for every k >= 1 and every population, get_recommendation_scores of an
\* existing user with a non-zero row returns a score vector and asks the
\* index for no more rows than it holds.
C3_ClampKeepsQueryValid ==
  (state = "ready" /\ last.op = "scores" /\ HasRatings(TheUser)) =>
     /\ last.exc = NoExc
     /\ last.asked <= NumUsers

\* C4: for a user with an all-zero row and n >= 1, get_recommendations
\* returns the n tools of highest column mean over all users, the i-th
\* returned record being the i-th tool by descending mean.
C4_ColdStartRankedByMean ==
  (state = "ready" /\ last.op = "recs" /\ ColdStart(TheUser) /\ last.n >= 1) =>
     /\ last.exc = NoExc
     /\ IsTopN(last.recs, ColumnTotals, Items, last.n)

\* C5: for a user who rated every tool, every n >= 1 and every k >= 1,
\* get_recommendations returns the empty list, raises nothing and does not
\* query the index.
C5_FullyRatedGetsNothing ==
  (state = "ready" /\ last.op = "recs" /\ FullyRated(TheUser) /\ last.n >= 1) =>
     /\ last.exc = NoExc
     /\ last.recs = <<>>
     /\ last.asked = 0

C5_Witness ==
  /\ Returned("recs") /\ FullyRated(TheUser) /\ last.n >= 1
  /\ n_neighbors >= NumUsers
  /\ last.recs = <<>>

\* C6: a query for an absent user fails with NotFoundError, get_recommendations
\* with n < 1 fails with ConfigurationError (also when the user is absent), and
\* no result is returned.
C6_ErrorClassOfCause ==
  /\ (state = "ready" /\ last.op = "recs" /\ last.n < 1) =>
        last.exc.class = "ConfigurationError" /\ NoResult
  /\ (state = "ready" /\ last.op = "scores" /\ TheUser \notin Users) =>
        last.exc.class = "NotFoundError" /\ NoResult
  /\ (state = "ready" /\ last.op = "recs" /\ last.n >= 1 /\ TheUser \notin Users) =>
        last.exc.class = "NotFoundError" /\ NoResult

\* C6 as amended: both query errors are ValueErrors, told apart by their
\* message only; n < 1 is checked before the user, and no result is returned.
C6_QueryErrorsAreValueErrors ==
  /\ (state = "ready" /\ last.op = "recs" /\ last.n < 1) =>
        last.exc = ValueError("n_recommendations_lt_1") /\ NoResult
  /\ (state = "ready" /\ last.op = "scores" /\ TheUser \notin Users) =>
        last.exc = ValueError("user_not_found") /\ NoResult
  /\ (state = "ready" /\ last.op = "recs" /\ last.n >= 1 /\ TheUser \notin Users) =>
        last.exc = ValueError("user_not_found") /\ NoResult

C6_Witness ==
  /\ Raised("recs") /\ last.n < 1 /\ TheUser \notin Users
  /\ last.exc.msg = "n_recommendations_lt_1"

\* what the three checks of construction decide
ColumnMissing == \E i \in Items : \A p \in 1..Len(tools_df) : tools_df[p] # i
CatalogDuplicate ==
  \E p, q \in 1..Len(tools_df) : p # q /\ tools_df[p] = tools_df[q]
ChecksPass == n_neighbors >= 1 /\ ~ColumnMissing /\ ~CatalogDuplicate
Built == model_fitted /\ tool_id_to_details = SeqRange(tools_df)
NothingBuilt == ~model_fitted /\ tool_id_to_details = {}

\* C7: construction fails with ConfigurationError if k < 1 and with
\* DataIntegrityError if a column is missing from the catalog or the catalog
\* has a duplicate, always before the index is built; the recommender is
\* ready exactly when the three checks pass.
C7_ConstructionErrorClasses ==
  state # "constructing" =>
     /\ (state = "ready") = ChecksPass
     /\ state = "ready" => Built
     /\ state = "failed" => NothingBuilt
     /\ n_neighbors < 1 => state = "failed" /\ init_exc.class = "ConfigurationError"
     /\ (n_neighbors >= 1 /\ (ColumnMissing \/ CatalogDuplicate)) =>
           state = "failed" /\ init_exc.class = "DataIntegrityError"

\* C7 as amended: every failure of construction is a ValueError, with the
\* message of the first failing check in the order missing column, duplicate
\* tool_id, k < 1; it happens before the index is built, and the recommender
\* is ready exactly when the three checks pass.
C7_ConstructionFailsFast ==
  /\ state = "constructing" => NothingBuilt /\ init_exc = NoExc
  /\ state # "constructing" =>
       /\ (state = "ready") = ChecksPass
       /\ state = "ready" => Built /\ init_exc = NoExc
       /\ state = "failed" =>
            /\ NothingBuilt
            /\ init_exc =
                 IF ColumnMissing THEN ValueError("missing_tool_ids")
                 ELSE IF CatalogDuplicate THEN ValueError("duplicate_tool_ids")
                 ELSE ValueError("n_neighbors_lt_1")

C7_Witness ==
  /\ state = "failed" /\ n_neighbors < 1 /\ ~ColumnMissing /\ ~CatalogDuplicate
  /\ init_exc.msg = "n_neighbors_lt_1" /\ NothingBuilt

\* C8: for a user who rated some but not all tools, the returned list is in
\* non-increasing order of the neighbours' column mean, and no unrated tool
\* left out has a strictly higher mean than a tool returned.
C8_RankedTopN ==
  (Returned("recs") /\ PartlyRated(TheUser) /\ last.n >= 1) =>
     LET score == SumOfRows(SeqRange(last.neighbors)) IN
       /\ Distinct(last.neighbors)
       /\ NonIncreasing(last.recs, score)
       /\ \A out \in RatedZero(TheUser) \ SeqRange(last.recs) :
            \A in \in SeqRange(last.recs) : score[out] <= score[in]

C8_Witness ==
  /\ Returned("recs") /\ PartlyRated(TheUser)
  /\ Len(last.neighbors) >= 2
  /\ Len(last.recs) >= 1
  /\ LET score == SumOfRows(SeqRange(last.neighbors)) IN
       \E out \in RatedZero(TheUser) \ SeqRange(last.recs) :
          score[out] < score[last.recs[Len(last.recs)]]

\* C9: for a user who rated some but not all tools, get_recommendations and
\* get_recommendation_scores either both fail, or both succeed, aggregate the
\* same neighbour rows, and the list is the top n of the score vector over
\* the tools the user has not rated above 0.
C9_SameNeighborSearch ==
  (state = "ready" /\ last.op = "recs" /\ PartlyRated(TheUser) /\ last.n >= 1) =>
     \A o \in (IF last.exc = NoExc THEN {last.order}
               ELSE DistanceOrders(user_item_matrix[TheUser])) :
           LET s == GetRecommendationScoresCall(TheUser, o) IN
             \/ last.exc # NoExc /\ s.exc # NoExc
             \/ /\ last.exc = NoExc /\ s.exc = NoExc
                /\ s.neighbors = last.neighbors
                /\ IsTopN(last.recs, s.scores.sums,
                          Items \ RatedAboveZero(TheUser), last.n)

C9_Witness ==
  /\ Returned("recs") /\ PartlyRated(TheUser)
  /\ Len(last.neighbors) >= 2 /\ Len(last.recs) >= 2
  /\ Cardinality(DistanceOrders(user_item_matrix[TheUser])) >= 2

\* C10: in an accepted recommender every column resolves in the lookup
\* table, so no identifier is skipped, and a user who rated some but not all
\* tools receives exactly min(n, number of tools rated 0) records.
C10_EveryColumnResolves ==
  state = "ready" =>
     /\ Items \subseteq tool_id_to_details
     /\ (Returned("recs") /\ PartlyRated(TheUser) /\ last.n >= 1) =>
          /\ last.skipped = 0
          /\ Len(last.recs) = Min(last.n, Cardinality(RatedZero(TheUser)))

C10_Witness ==
  /\ Returned("recs") /\ PartlyRated(TheUser)
  /\ Len(last.recs) = 2 /\ last.skipped = 0
  /\ ExtraTool \in tool_id_to_details

====
